---- MODULE Spec2Model ----
(***************************************************************************)
(* Model of mef.py: the `get` command (record discovery, batched export    *)
(* through the server-side transfer bucket) and the `put` command (import  *)
(* of a MEF archive), together with the part of the catalog server the     *)
(* two commands talk to (query result list, selection buckets, records).   *)
(* One step of the model is one HTTP request with everything the program   *)
(* does up to the next request.                                            *)
(***************************************************************************)
EXTENDS Integers, Sequences, FiniteSets, TLC

\* ---------------------------------------------------------------- bounds
MaxSmall   == 3   \* longest "small" query result list
MaxFull    == 2   \* large result lists hold up to MaxFull full sub-batches plus one
MaxLimit   == 2   \* largest --limit tried
MaxBatch   == 2   \* largest small --batch tried
MaxPage    == 2   \* largest page the server returns to one paginated query
MaxPerm    == 3   \* largest bucket whose listing order is enumerated in full
MaxEntries == 3   \* most top-level entries of an imported archive
MaxTime    == 1   \* latest second the clock shows during a run, from 0
MaxOther   == 2   \* most identifiers a second, concurrent run exports

\* ------------------------------------------------------ program constants
BUCKET_BATCH_SIZE == 100
DefaultBatch      == 500

\* --------------------------------------------------------------- helpers
Range(s) == {s[k] : k \in 1..Len(s)}

Min(a, b) == IF a <= b THEN a ELSE b
Max(a, b) == IF a >= b THEN a ELSE b

\* Python's s[:k]: the first k items, or all but the last -k when k < 0.
SliceTo(s, k) ==
    IF k >= 0 THEN SubSeq(s, 1, Min(k, Len(s)))
              ELSE SubSeq(s, 1, Max(Len(s) + k, 0))

\* A plausible slip: dropping a trailing short chunk.
RECURSIVE BatchedStrict(_, _)
BatchedStrict(s, k) ==
    IF Len(s) < k THEN <<>>
    ELSE <<SubSeq(s, 1, k)>> \o BatchedStrict(SubSeq(s, k + 1, Len(s)), k)

\* itertools.batched(s, k) for k >= 1: chunks of k items, the last one shorter.
RECURSIVE batched(_, _)
batched(s, k) ==
    IF Len(s) = 0 THEN <<>>
    ELSE <<SubSeq(s, 1, Min(k, Len(s)))>> \o batched(SubSeq(s, Min(k, Len(s)) + 1, Len(s)), k)

RECURSIVE Flatten(_)
Flatten(ss) == IF Len(ss) = 0 THEN <<>> ELSE Head(ss) \o Flatten(Tail(ss))

Ceil(a, b) == (a + b - 1) \div b

\* The listings a server may give of a selection bucket (a set): every order
\* of a small bucket, ascending and descending order of a large one.
Least(S) == CHOOSE x \in S : \A y \in S : x <= y
Ascending(S) ==
    IF S = {} THEN <<>>
    ELSE IF S = Least(S)..(Least(S) + Cardinality(S) - 1)
         THEN [p \in 1..Cardinality(S) |-> Least(S) + p - 1]
         ELSE [p \in 1..Cardinality(S) |->
                  CHOOSE x \in S : Cardinality({y \in S : y < x}) = p - 1]
Reverse(s) == [p \in 1..Len(s) |-> s[Len(s) + 1 - p]]
Descending(S) == Reverse(Ascending(S))
Listings(S) ==
    IF Cardinality(S) <= MaxPerm
    THEN {f \in [1..Cardinality(S) -> S] : \A a, b \in 1..Cardinality(S) : a # b => f[a] # f[b]}
    ELSE {Ascending(S), Descending(S)}

\* ---------------------------------------------------------------- inputs
\* Small result lists: 1..L in order, possibly with one identifier repeated.
SmallResults ==
    UNION {
        {[p \in 1..L |-> p]} \cup
        {[p \in 1..L |-> IF p = b THEN a ELSE p] : a \in 1..L, b \in 2..L}
        : L \in 0..MaxSmall}
\* Large result lists: as long as one full sub-batch, or k full sub-batches plus one.
LargeResults ==
    {[p \in 1..BUCKET_BATCH_SIZE |-> p]} \cup
    {[p \in 1..(k * BUCKET_BATCH_SIZE + 1) |-> p] : k \in 1..MaxFull}

Limits     == (-1)..MaxLimit
BatchSizes == ((-1)..MaxBatch) \cup {DefaultBatch}
LargeBatchSizes == {0, BUCKET_BATCH_SIZE, DefaultBatch}
Modes      == {"record", "records", "mef"}
EntryKinds == {"record", "nometa", "file"}
Archives   == UNION {[1..L -> EntryKinds] : L \in 0..MaxEntries}

\* ----------------------------------------------------------------- state
VARIABLES
    cmd,          \* "get" or "put"
    limit, batch, magic, dryrun,   \* arguments of get
    mode, archive,                 \* arguments of put: mode, entries of the archive
    results,      \* server: the query's result list, in query order
    span,         \* the clock shows a second of 0..span whenever it is read
    pageSize,     \* server: results per page of a paginated query, 0 until the first
    metadata,     \* server: the magic bucket 'metadata'
    bucket,       \* server: the transfer bucket 'mef'
    imported,     \* server: archive entries imported by PUT /records, in order
    pc,           \* the request the program issues next, or "done" / "aborted"
    exit,         \* exit status once the run has ended, -1 before
    ids, to,      \* get: discovered identifiers, last @to
    found,        \* get: the identifiers as discovered, before any truncation
    rsp,          \* get: the 'metadata' list of the last page received
    mef_batches,  \* get: the transfer batches
    i,            \* get: 1-based index of the current batch; put: records updated
    subs,         \* get: sub-batches of the current batch still to PUT
    puts,         \* get: payloads of the fill PUTs of the current batch, in order
    seen,         \* get: bucket size the last verification GET reported
    files,        \* get: filename parts of the archives written, in order
    timestamp,    \* get: the clock as last read
    disk,         \* get: names of the files the run has written so far
    would,        \* get: filename parts reported by dry-run, in order
    clears,       \* get: DELETEs of the transfer bucket that succeeded
    recs,         \* put: valid archive entries still to send
    updated,      \* put: the count "Updated i records" reports, -1 if none
    issued,       \* HTTP requests issued so far, per kind of request
    lastOk,       \* whether the last request returned a success status
    other         \* a second run of get on the same transfer bucket, if any

args   == <<cmd, limit, batch, magic, dryrun, mode, archive, results, span>>
server == <<metadata, bucket, imported>>
getst  == <<ids, to, found, mef_batches, subs, puts, seen, files, timestamp, disk,
           would, clears>>
putst  == <<recs, updated>>
vars   == <<args, server, getst, putst, pageSize, rsp, pc, exit, i, issued, lastOk, other>>

n == Len(mef_batches)

\* The kinds of request: the program positions that issue one.
Kinds == {"handshake", "q", "magic_put", "magic_get", "page", "fill", "verify",
          "export", "clear", "put_handshake", "put_mef", "put_records", "put_record"}
RECURSIVE Sum(_, _)
Sum(f, S) == IF S = {} THEN 0 ELSE LET k == CHOOSE x \in S : TRUE IN f[k] + Sum(f, S \ {k})
nreq == Sum(issued, Kinds)

\* --------------------------------------------------------------- start-up
InitGet ==
    /\ cmd = "get"
    /\ \/ /\ results \in SmallResults
          /\ limit \in Limits
          /\ batch \in BatchSizes
          /\ span \in IF limit = 0 /\ batch = 1 THEN 0..MaxTime ELSE {0}
       \/ /\ results \in LargeResults
          /\ limit = 0
          /\ batch \in LargeBatchSizes
          /\ span = 0
    /\ magic \in BOOLEAN
    /\ dryrun \in BOOLEAN
    /\ mode = "record"
    /\ archive = <<>>
    /\ pc = "handshake"

InitPut ==
    /\ cmd = "put"
    /\ mode \in Modes
    /\ archive \in Archives
    /\ results = <<>> /\ span = 0
    /\ limit = 0 /\ batch = DefaultBatch /\ magic = TRUE /\ dryrun = FALSE
    /\ pc = "put_handshake"

\* No second run.
NoRun == [pc |-> "none", mef_batches |-> <<>>, i |-> 0, subs |-> <<>>]

\* Nothing requested or received yet, a new session on the server.
InitState ==
    /\ metadata = {} /\ bucket = {} /\ imported = <<>> /\ pageSize = 0
    /\ exit = -1
    /\ ids = <<>> /\ to = 0 /\ found = <<>> /\ rsp = <<>>
    /\ mef_batches = <<>> /\ i = 0
    /\ subs = <<>> /\ puts = <<>> /\ seen = -1
    /\ files = <<>> /\ would = <<>> /\ clears = 0
    /\ timestamp = 0 /\ disk = {}
    /\ recs = <<>> /\ updated = -1
    /\ issued = [k \in Kinds |-> 0] /\ lastOk = TRUE

Init ==
    /\ InitGet \/ InitPut
    /\ other = NoRun
    /\ InitState

\* ------------------------------------------------------- requests, errors
\* The request of position pc is issued and answered with a success (ok) or
\* an error status.
Request(ok) ==
    /\ issued' = [issued EXCEPT ![pc] = @ + 1]
    /\ lastOk' = ok
    /\ UNCHANGED <<args, other>>

\* The page size is the server's: it shows with the first paginated query;
\* only a paginated query brings a page.
PageKept == pageSize' = pageSize /\ rsp' = rsp

\* A plausible slip: an abort that still reports the count reached so far.
Exit1Reporting ==
    /\ pc' = "aborted"
    /\ exit' = 1
    /\ updated' = i
    /\ UNCHANGED <<server, getst, recs, i, rsp>>

\* sys.exit(1) of abort_on_error: nothing else happens.
Exit1 ==
    /\ pc' = "aborted"
    /\ exit' = 1
    /\ UNCHANGED <<server, getst, putst, i, rsp>>

\* A plausible slip: reporting the error and carrying on.
abort_ignored(ok, cont) == cont

\* abort_on_error(r): on an error status end the run, else carry on with cont.
abort_on_error(ok, cont) == IF ok THEN cont ELSE Exit1

\* ------------------------------------------------------------ get: export
\* A plausible slip: batch <= 0 not special-cased, short last batch dropped.
SplitStrict(s) == IF batch <= 0 THEN <<s>> ELSE BatchedStrict(s, batch)

\* mef_batches = [ids] if batch <= 0 else list(itertools.batched(ids, batch))
Split(s) == IF batch <= 0 THEN <<s>> ELSE batched(s, batch)

\* A plausible slip: sub-batches one identifier too long.
SubBatchesLong(b) == batched(b, BUCKET_BATCH_SIZE + 1)

\* itertools.batched(mef_batch, BUCKET_BATCH_SIZE)
SubBatches(b) == batched(b, BUCKET_BATCH_SIZE)

\* The for statement reaches batch k of bs: the run ends after the last one;
\* a batch without identifiers has no PUT and goes straight to the GET.
EnterBatch(bs, k) ==
    IF k > Len(bs)
    THEN /\ pc' = "done"
         /\ exit' = 0
         /\ UNCHANGED <<i, subs, puts>>
    ELSE /\ i' = k
         /\ subs' = SubBatches(bs[k])
         /\ puts' = <<>>
         /\ pc' = IF SubBatches(bs[k]) = <<>> THEN "verify" ELSE "fill"
         /\ exit' = exit

\* Discovery is over with the identifiers s: split them and enter the loop.
StartExport(s) ==
    /\ ids' = s
    /\ mef_batches' = Split(s)
    /\ EnterBatch(Split(s), 1)
    /\ UNCHANGED <<seen, files, timestamp, disk, would, clears>>

\* A plausible slip: truncating whenever a limit is given, reached or not,
\* and by one too many.
TruncateShort(s) == IF limit > 0 THEN SliceTo(s, limit - 1) ELSE s

\* if limit and len(ids) >= limit: ids = ids[:limit]
LimitReached(s) == limit # 0 /\ Len(s) >= limit
Truncate(s)     == IF LimitReached(s) THEN SliceTo(s, limit) ELSE s

\* What the magic-bucket strategy can return when the query matches the set S.
MagicIds(S) == {Truncate(l) : l \in Listings(S)}

\* ---------------------------------------------------------- get: session
\* session.post(.../eng/info?type=me): an error status is not looked at.
Handshake ==
    /\ pc = "handshake"
    /\ PageKept
    /\ \E ok \in BOOLEAN : Request(ok)
    /\ pc' = IF magic THEN "q" ELSE "page"
    /\ UNCHANGED <<server, getst, putst, i, exit>>

\* ------------------------------------------- get: magic-bucket discovery
MagicQuery ==
    /\ pc = "q"
    /\ PageKept
    /\ \E ok \in BOOLEAN :
         /\ Request(ok)
         /\ abort_on_error(ok,
              /\ pc' = "magic_put"
              /\ UNCHANGED <<server, getst, putst, i, exit>>)

\* PUT without uuid: the server fills 'metadata' with the last query's matches.
MagicPut ==
    /\ pc = "magic_put"
    /\ PageKept
    /\ \E ok \in BOOLEAN :
         /\ Request(ok)
         /\ abort_on_error(ok,
              /\ metadata' = Range(results)
              /\ pc' = "magic_get"
              /\ UNCHANGED <<bucket, imported, getst, putst, i, exit>>)

\* GET of 'metadata': the server lists the bucket in an order of its own.
MagicGet ==
    /\ pc = "magic_get"
    /\ PageKept
    /\ \E ok \in BOOLEAN :
         /\ Request(ok)
         /\ abort_on_error(ok,
              /\ \E l \in Listings(metadata) :
                    /\ found' = l
                    /\ StartExport(Truncate(l))
              /\ UNCHANGED <<server, putst, to>>)

\* --------------------------------------------- get: paginated discovery
\* The server's page for offset from: up to sz consecutive results, each a
\* record or (the known defect) a one-element list holding the record.
Page(from, sz, wrap) ==
    LET cut == SubSeq(results, from, Min(from + sz - 1, Len(results)))
    IN  [p \in 1..Len(cut) |->
            IF wrap[p] THEN [list |-> TRUE,  val |-> <<[uuid |-> cut[p]]>>]
                       ELSE [list |-> FALSE, val |-> [uuid |-> cut[p]]]]

\* The number of entries of that page.
PageLen(from, sz) == Max(0, Min(from + sz - 1, Len(results)) - from + 1)

\* A plausible slip: entries wrapped in a list are passed over.
RECURSIVE query_records_plain(_)
query_records_plain(md) ==
    IF md = <<>> THEN <<>>
    ELSE IF Head(md).list THEN query_records_plain(Tail(md))
         ELSE <<Head(md).val>> \o query_records_plain(Tail(md))

\* query_records: m[0] for a list, m otherwise.
query_records(md) ==
    [p \in 1..Len(md) |-> IF md[p].list THEN md[p].val[1] ELSE md[p].val]

\* A plausible slip: the offset one too far.
NextFromSkips(t) == t + 2

\* params 'from': to + 1
NextFrom(t) == t + 1

\* One turn of the while loop: GET q from to+1, take @to and the uuids.
QueryPage ==
    /\ pc = "page"
    /\ \E sz \in IF pageSize = 0 THEN 1..MaxPage ELSE {pageSize} :
       \E ok \in BOOLEAN :
         /\ Request(ok)
         /\ pageSize' = sz
         /\ abort_on_error(ok,
              \E wrap \in [1..PageLen(NextFrom(to), sz) -> BOOLEAN] :
                LET md     == Page(NextFrom(to), sz, wrap)
                    recds  == query_records(md)
                    newids == [p \in 1..Len(recds) |-> recds[p].uuid]
                IN  /\ rsp' = md
                    /\ to' = IF md = <<>> THEN to ELSE NextFrom(to) + Len(md) - 1
                    /\ found' = found \o newids
                    /\ IF newids = <<>>
                       THEN StartExport(ids)
                       ELSE IF LimitReached(ids \o newids)
                            THEN StartExport(Truncate(ids \o newids))
                            ELSE /\ ids' = ids \o newids
                                 /\ pc' = "page"
                                 /\ UNCHANGED <<mef_batches, subs, puts, seen, files,
                                                timestamp, disk,
                                                would, clears, i, exit>>
                    /\ UNCHANGED <<server, putst>>)

\* ------------------------------------------------------- get: batch loop
\* Server: PUT adds the given uuids to the bucket; DELETE empties it.
BucketPut(b, uuids) == b \cup Range(uuids)
\* A plausible slip: a DELETE that leaves the bucket as it is.
BucketKept(b)       == b
BucketDelete(b)     == {}

\* One PUT of the fill loop, carrying the next sub-batch.
FillPut ==
    /\ pc = "fill"
    /\ PageKept
    /\ \E ok \in BOOLEAN :
         /\ Request(ok)
         /\ abort_on_error(ok,
              /\ bucket' = BucketPut(bucket, Head(subs))
              /\ puts' = Append(puts, Head(subs))
              /\ subs' = Tail(subs)
              /\ pc' = IF Tail(subs) = <<>> THEN "verify" ELSE "fill"
              /\ UNCHANGED <<metadata, imported, ids, to, found, mef_batches, seen, files,
                             timestamp, disk, would, clears, putst, i, exit>>)

\* f"{i:02}": the decimal digits of i, padded with zeros to two digits.
DigitChars == <<"0", "1", "2", "3", "4", "5", "6", "7", "8", "9">>
RECURSIVE Digits(_)
Digits(k) == IF k < 10 THEN <<DigitChars[k + 1]>>
             ELSE Append(Digits(k \div 10), DigitChars[(k % 10) + 1])
Format02(k) == IF k < 10 THEN <<"0">> \o Digits(k) ELSE Digits(k)

\* A plausible slip: every batch numbered, a single one too.
PartNumbered == Format02(i)

\* part = 'all' if n == 1 else f"{i:02}"
part == IF n = 1 THEN <<"a", "l", "l">> ELSE Format02(i)

\* A plausible slip: the part left out of the name.
filename_unparted ==
    <<"export-", "{format}", "-">> \o Digits(timestamp) \o <<".zip">>

\* f"export-{format}-{timestamp}-{part}.zip" for a timestamp and a part
Name(ts, pt) ==
    <<"export-", "{format}", "-">> \o Digits(ts) \o <<"-">> \o pt \o <<".zip">>

\* filename = f"export-{format}-{timestamp}-{part}.zip"
filename == Name(timestamp, part)

\* open(filename, 'wb') and the chunks written: the file of that name is
\* created, or replaced when there is one.
write(d) == d \cup {filename}

\* A plausible slip: dryrun not looked at.
DryrunIgnored ==
    /\ would' = would
    /\ pc' = "export"

\* if dryrun: print the filename, else: go on to the export request.
DryrunBranch ==
    IF dryrun
    THEN /\ would' = Append(would, part)
         /\ pc' = "clear"
    ELSE /\ would' = would
         /\ pc' = "export"

\* A plausible slip: a reported size other than the batch's length is fatal.
VerifyStrict ==
    /\ pc = "verify"
    /\ PageKept
    /\ \E ok \in BOOLEAN :
         /\ Request(ok)
         /\ abort_on_error(ok /\ Cardinality(bucket) = Len(mef_batches[i]),
              /\ seen' = Cardinality(bucket)
              /\ timestamp' \in 0..span
              /\ DryrunBranch
              /\ UNCHANGED <<server, ids, to, found, mef_batches, subs, puts, files, disk, clears,
                             putst, i, exit>>)

\* The verification GET, the progress line, the filename; dry-run reports it.
Verify ==
    /\ pc = "verify"
    /\ PageKept
    /\ \E ok \in BOOLEAN :
         /\ Request(ok)
         /\ abort_on_error(ok,
              /\ seen' = Cardinality(bucket)
              /\ timestamp' \in 0..span
              /\ DryrunBranch
              /\ UNCHANGED <<server, ids, to, found, mef_batches, subs, puts, files, disk, clears,
                             putst, i, exit>>)

\* GET mef.export of the bucket, streamed into the file.
Export ==
    /\ pc = "export"
    /\ PageKept
    /\ \E ok \in BOOLEAN :
         /\ Request(ok)
         /\ abort_on_error(ok,
              /\ files' = Append(files, part)
              /\ disk' = write(disk)
              /\ pc' = "clear"
              /\ UNCHANGED <<server, ids, to, found, mef_batches, subs, puts, seen, would,
                             clears, timestamp, putst, i, exit>>)

\* A plausible slip: no DELETE at the end of a batch.
ClearSkipped ==
    /\ pc = "clear"
    /\ PageKept
    /\ EnterBatch(mef_batches, i + 1)
    /\ UNCHANGED <<args, other, server, issued, lastOk, ids, to, found, mef_batches, seen,
                   files, timestamp, disk, would, clears, putst>>

\* DELETE of the transfer bucket, then the next batch.
Clear ==
    /\ pc = "clear"
    /\ PageKept
    /\ \E ok \in BOOLEAN :
         /\ Request(ok)
         /\ abort_on_error(ok,
              /\ bucket' = BucketDelete(bucket)
              /\ clears' = clears + 1
              /\ EnterBatch(mef_batches, i + 1)
              /\ UNCHANGED <<metadata, imported, ids, to, found, mef_batches, seen, files,
                             timestamp, disk, would, putst>>)

\* -------------------------------------------------------------------- put
\* A plausible slip: every directory taken, its metadata.xml not looked for.
RECURSIVE mef_records_dirs(_, _)
mef_records_dirs(a, p) ==
    IF p > Len(a) THEN <<>>
    ELSE IF a[p] # "file" THEN <<p>> \o mef_records_dirs(a, p + 1)
         ELSE mef_records_dirs(a, p + 1)

\* mef_records: the positions of the entries that are a directory holding
\* metadata/metadata.xml, in archive order.
RECURSIVE mef_records(_, _)
mef_records(a, p) ==
    IF p > Len(a) THEN <<>>
    ELSE IF a[p] = "record" THEN <<p>> \o mef_records(a, p + 1)
         ELSE mef_records(a, p + 1)

\* session.post(.../api/info?type=me), abort_on_error; then the mode's branch.
\* The generator of record mode is drained at once; an empty one ends the run.
PutHandshake ==
    /\ pc = "put_handshake"
    /\ PageKept
    /\ \E ok \in BOOLEAN :
         /\ Request(ok)
         /\ abort_on_error(ok,
              /\ recs' = IF mode = "record" THEN mef_records(archive, 1) ELSE <<>>
              /\ IF mode = "record" /\ mef_records(archive, 1) = <<>>
                 THEN /\ updated' = 0
                      /\ pc' = "done"
                      /\ exit' = 0
                 ELSE /\ updated' = updated
                      /\ pc' = CASE mode = "mef"     -> "put_mef"
                                 [] mode = "records" -> "put_records"
                                 [] OTHER            -> "put_record"
                      /\ exit' = exit
              /\ UNCHANGED <<server, getst, i>>)

\* POST mef.import / POST records: the whole archive in one request.
PutWhole ==
    /\ pc \in {"put_mef", "put_records"}
    /\ PageKept
    /\ \E ok \in BOOLEAN :
         /\ Request(ok)
         /\ abort_on_error(ok,
              /\ pc' = "done"
              /\ exit' = 0
              /\ UNCHANGED <<server, getst, putst, i>>)

\* PUT records for the next valid entry; after the last, "Updated i records".
PutRecord ==
    /\ pc = "put_record"
    /\ PageKept
    /\ \E ok \in BOOLEAN :
         /\ Request(ok)
         /\ abort_on_error(ok,
              /\ imported' = Append(imported, Head(recs))
              /\ i' = i + 1
              /\ recs' = Tail(recs)
              /\ IF Tail(recs) = <<>>
                 THEN /\ updated' = i + 1
                      /\ pc' = "done"
                      /\ exit' = 0
                 ELSE /\ updated' = updated
                      /\ pc' = "put_record"
                      /\ exit' = exit
              /\ UNCHANGED <<metadata, bucket, getst>>)

\* ---------------------------------------------------------- specification
Next ==
    \/ Handshake
    \/ MagicQuery
    \/ MagicPut
    \/ MagicGet
    \/ QueryPage
    \/ FillPut
    \/ Verify
    \/ Export
    \/ Clear
    \/ PutHandshake
    \/ PutWhole
    \/ PutRecord

Spec == Init /\ [][Next]_vars

\* The program is sequential and each request returns: a run that can take
\* its next step takes it.
FairSpec == Spec /\ WF_vars(Next)

\* ------------------------------------- two runs on one transfer bucket
\* A second run of get, started with the same batch size, works on the same
\* transfer bucket. Its discovery is over; it has its own identifiers and
\* goes through the batch loop at its own pace, between the requests of the
\* first run.
OtherResults == {[p \in 1..L |-> MaxSmall + p] : L \in 1..MaxOther}

\* The second run's for statement reaches batch k.
OtherEnter(o, k) ==
    IF k > Len(o.mef_batches)
    THEN [o EXCEPT !.pc = "done"]
    ELSE [o EXCEPT !.i = k,
                   !.subs = SubBatches(o.mef_batches[k]),
                   !.pc = IF SubBatches(o.mef_batches[k]) = <<>> THEN "verify" ELSE "fill"]
OtherStart(s) == OtherEnter([NoRun EXCEPT !.mef_batches = Split(s)], 1)
OtherAborted == [other EXCEPT !.pc = "aborted"]

\* What a step of the second run leaves alone: all of the first run.
first == <<args, getst, putst, pageSize, rsp, pc, exit, i, issued, lastOk, metadata, imported>>

\* The second run's fill PUT.
OtherFill ==
    /\ other.pc = "fill"
    /\ \E ok \in BOOLEAN :
         IF ok
         THEN /\ bucket' = BucketPut(bucket, Head(other.subs))
              /\ other' = [other EXCEPT !.subs = Tail(@),
                                        !.pc = IF Tail(other.subs) = <<>> THEN "verify"
                                               ELSE "fill"]
         ELSE /\ other' = OtherAborted
              /\ bucket' = bucket
    /\ UNCHANGED first

\* The second run's verification GET.
OtherVerify ==
    /\ other.pc = "verify"
    /\ \E ok \in BOOLEAN :
         other' = IF ok THEN [other EXCEPT !.pc = IF dryrun THEN "clear" ELSE "export"]
                  ELSE OtherAborted
    /\ UNCHANGED <<first, bucket>>

\* The second run's GET mef.export.
OtherExport ==
    /\ other.pc = "export"
    /\ \E ok \in BOOLEAN :
         other' = IF ok THEN [other EXCEPT !.pc = "clear"] ELSE OtherAborted
    /\ UNCHANGED <<first, bucket>>

\* The second run's DELETE of the transfer bucket, then its next batch.
OtherClear ==
    /\ other.pc = "clear"
    /\ \E ok \in BOOLEAN :
         IF ok
         THEN /\ bucket' = BucketDelete(bucket)
              /\ other' = OtherEnter(other, other.i + 1)
         ELSE /\ other' = OtherAborted
              /\ bucket' = bucket
    /\ UNCHANGED first

\* The first run is started without limit and finds its identifiers page by
\* page; the second is about to work on its first batch.
InitTwo ==
    /\ cmd = "get"
    /\ results \in SmallResults
    /\ limit = 0
    /\ batch \in 1..MaxBatch
    /\ span = 0
    /\ magic = FALSE
    /\ dryrun = FALSE
    /\ mode = "record"
    /\ archive = <<>>
    /\ pc = "handshake"
    /\ other \in {OtherStart(s) : s \in OtherResults}
    /\ InitState

NextTwo ==
    \/ Handshake
    \/ QueryPage
    \/ FillPut
    \/ Verify
    \/ Export
    \/ Clear
    \/ OtherFill
    \/ OtherVerify
    \/ OtherExport
    \/ OtherClear

TwoRuns == InitTwo /\ [][NextTwo]_vars

\* ================================================================= claims
InLoop        == cmd = "get" /\ pc \in {"fill", "verify", "export", "clear"}
DiscoveryOver == InLoop \/ (cmd = "get" /\ pc = "done")
GetDone       == cmd = "get" /\ pc = "done"
GetAborted    == cmd = "get" /\ pc = "aborted"
AllPart       == <<"a", "l", "l">>

\* C1: with identifiers and a batch size > 0 there are ceil(len/batch)
\* batches, batch k is the slice of ids from (k-1)*batch+1 to k*batch, their
\* concatenation is ids, and a run that completes has processed each batch
\* and (unless dry-run) written one archive per batch.
C1_BatchesPartitionIds ==
    (DiscoveryOver /\ ids # <<>> /\ batch > 0) =>
        /\ n = Ceil(Len(ids), batch)
        /\ \A k \in 1..n :
              mef_batches[k] = SubSeq(ids, (k - 1) * batch + 1, Min(k * batch, Len(ids)))
        /\ Flatten(mef_batches) = ids
        /\ pc = "done" => /\ clears = n
                          /\ issued["verify"] = n
                          /\ ~dryrun => Len(files) = n /\ issued["export"] = n
C1_Witness ==
    /\ GetDone /\ ~dryrun /\ batch > 0
    /\ Len(ids) > batch /\ Len(ids) % batch # 0
    /\ Len(files) = Ceil(Len(ids), batch)

\* C2: when the archive-export request of batch i is about to be issued, the
\* transfer bucket holds exactly the identifiers of batch i.
C2_BucketIsBatchAtExport ==
    (cmd = "get" /\ pc = "export") => bucket = Range(mef_batches[i])
C2_Witness ==
    /\ cmd = "get" /\ pc = "export" /\ i >= 2
    /\ bucket # {} /\ bucket # Range(mef_batches[i - 1])

C4_FillPutsBounded ==
    InLoop =>
        /\ \A k \in 1..Len(puts) : Len(puts[k]) \in 1..BUCKET_BATCH_SIZE
        /\ Flatten(puts) \o Flatten(subs) = mef_batches[i]
        /\ pc # "fill" => subs = <<>>
        /\ bucket = Range(Flatten(puts))
C4_Witness ==
    /\ cmd = "get" /\ pc = "verify"
    /\ Len(puts) >= 3
    /\ Len(puts[1]) = BUCKET_BATCH_SIZE
    /\ Len(mef_batches[i]) > 2 * BUCKET_BATCH_SIZE

\* C5 as stated: after any request that returned an error status, the
\* handshake included, the run has ended with status 1.
C5_EveryErrorAborts ==
    ~lastOk => pc = "aborted" /\ exit = 1
\* C5 amended: the same, except for the handshake of get, whose status is
\* not looked at; an aborted run issues nothing more, only a run without an
\* aborting error ends with status 0.
OnlyHandshakeIssued == nreq = 1 /\ issued["handshake"] = 1
C5_ErrorAbortsButGetHandshake ==
    /\ (~lastOk /\ ~OnlyHandshakeIssued) => pc = "aborted" /\ exit = 1
    /\ (~lastOk /\ OnlyHandshakeIssued) => pc \in {"q", "page"} /\ exit = -1
    /\ pc = "aborted" <=> exit = 1
    /\ pc = "aborted" => ~lastOk /\ ~ENABLED Next
    /\ pc = "done" <=> exit = 0
    /\ pc = "done" => lastOk
C5_Witness ==
    /\ pc = "aborted" /\ exit = 1 /\ ~lastOk
    /\ nreq >= 3

\* C6: with limit > 0 the identifiers handed to export are the first
\* min(limit, number discovered) of the discovery order, the bucket listing
\* for the magic strategy and the query order for the paginated one.
Discovered == IF magic THEN found ELSE results
C6_LimitKeepsFirst ==
    (DiscoveryOver /\ limit > 0) =>
        /\ ids = SubSeq(Discovered, 1, Min(limit, Len(Discovered)))
        /\ Len(ids) <= limit
        /\ Len(Discovered) >= limit => Len(ids) = limit
        /\ magic => Range(found) = Range(results) /\ Len(found) = Cardinality(Range(results))
        /\ mef_batches # <<>> => Flatten(mef_batches) = ids
C6_Witness ==
    /\ DiscoveryOver /\ magic
    /\ limit > 0 /\ Len(found) > limit
    /\ Len(ids) = limit
    /\ found[1] # results[1]

\* C7 as stated, in the case it names: with a limit > 0 too, the identifiers
\* the paginated strategy returned are, as a set, what the magic strategy
\* returns on the same results, however the server lists the magic bucket.
C7_StrategiesAgreeUnderLimit ==
    (DiscoveryOver /\ ~magic /\ limit > 0) =>
        \A m \in MagicIds(Range(results)) : Range(m) = Range(ids)
\* C7 amended: they agree for limit 0 and for a limit > 0 that is at least
\* the number of matching records.
C7_StrategiesAgreeWithoutTruncation ==
    (DiscoveryOver /\ ~magic /\ (limit = 0 \/ limit >= Len(results))) =>
        \A m \in MagicIds(Range(results)) : Range(m) = Range(ids)
C7_Witness ==
    /\ DiscoveryOver /\ ~magic /\ limit = 0
    /\ Len(ids) >= 2
    /\ pageSize < Len(ids)
    /\ \E m \in MagicIds(Range(results)) : m # ids

\* C8 as stated: when nothing was discovered there is no batch, no request
\* after discovery and no file, whatever the batch size.
C8_NothingWithoutIds ==
    (DiscoveryOver /\ found = <<>>) =>
        /\ n = 0
        /\ issued["fill"] = 0 /\ issued["verify"] = 0
        /\ issued["export"] = 0 /\ issued["clear"] = 0
        /\ files = <<>>

\* C9: with batch <= 0 there is one batch, it is ids, and a completed run
\* that is no dry-run wrote one archive, its part "all".
C9_SingleBatchAll ==
    (DiscoveryOver /\ batch <= 0) =>
        /\ mef_batches = <<ids>>
        /\ (pc = "done" /\ ~dryrun) =>
              /\ files = <<AllPart>>
              /\ issued["export"] = 1
              /\ clears = 1
C9_Witness ==
    /\ GetDone /\ batch < 0 /\ ~dryrun
    /\ Len(ids) >= 2
    /\ files = <<AllPart>>

\* C10: a dry-run writes no file and issues no export request; completed
\* over n batches it has reported n filenames, that of batch k in place k,
\* and cleared the bucket n times.
C10_DryRun ==
    (cmd = "get" /\ dryrun) =>
        /\ files = <<>>
        /\ issued["export"] = 0
        /\ pc = "done" =>
              /\ Len(would) = n
              /\ \A k \in 1..n : would[k] = IF n = 1 THEN AllPart ELSE Format02(k)
              /\ clears = n
              /\ issued["clear"] = n
C10_Witness ==
    /\ GetDone /\ dryrun
    /\ n >= 2
    /\ Len(would) = n /\ clears = n

\* C11 as stated: a dry-run issues no fill PUT and no export request, and
\* the transfer bucket stays empty.
C11_DryRunLeavesBucketAlone ==
    (cmd = "get" /\ dryrun) =>
        /\ issued["fill"] = 0
        /\ issued["export"] = 0
        /\ bucket = {}

\* C12: a run of put in record mode that completes has sent one PUT for each
\* entry that is a directory holding metadata/metadata.xml, in archive order,
\* none for another entry, and reports their number.
ValidEntries == {p \in 1..Len(archive) : archive[p] = "record"}
C12_RecordModeSendsValidEntries ==
    (cmd = "put" /\ mode = "record" /\ pc = "done") =>
        /\ Range(imported) = ValidEntries
        /\ Len(imported) = Cardinality(ValidEntries)
        /\ \A a, b \in 1..Len(imported) : a < b => imported[a] < imported[b]
        /\ issued["put_record"] = Cardinality(ValidEntries)
        /\ updated = Cardinality(ValidEntries)
C12_Witness ==
    /\ cmd = "put" /\ mode = "record" /\ pc = "done"
    /\ \E a, b, c \in 1..Len(archive) :
          archive[a] = "record" /\ archive[b] = "nometa" /\ archive[c] = "file"
    /\ updated = 1
    /\ Len(imported) = 1

\* C13: when the PUT of the k-th valid entry returns an error the run ends
\* there with status 1: k PUTs were issued, the first k-1 valid entries stay
\* imported, nothing more is sent and no count is reported.
C13_RecordModeAbortsAtFailure ==
    (cmd = "put" /\ mode = "record") =>
        /\ updated # -1 => pc = "done"
        /\ (pc = "aborted" /\ issued["put_record"] >= 1) =>
              /\ exit = 1
              /\ updated = -1
              /\ Len(imported) = issued["put_record"] - 1
              /\ imported = SubSeq(mef_records(archive, 1), 1, issued["put_record"] - 1)
              /\ recs = SubSeq(mef_records(archive, 1), issued["put_record"],
                               Len(mef_records(archive, 1)))
              /\ ~ENABLED Next
C13_Witness ==
    /\ cmd = "put" /\ mode = "record" /\ pc = "aborted"
    /\ issued["put_record"] = 2
    /\ Len(imported) = 1
    /\ Len(recs) >= 2
    /\ updated = -1

\* C14: a verification GET that succeeds is followed by the export request
\* (by the DELETE in a dry-run) whatever size it reported, the batch's length
\* or not, and the run goes on to the batches after it.
C14_SizeReportDoesNotDecide ==
    [][(cmd = "get" /\ pc = "verify" /\ lastOk') =>
          /\ seen' = Cardinality(bucket)
          /\ pc' = IF dryrun THEN "clear" ELSE "export"
          /\ exit' = -1]_vars
C14_Witness ==
    /\ GetDone /\ ~dryrun
    /\ n >= 2
    /\ \E k \in 1..n : Cardinality(Range(mef_batches[k])) # Len(mef_batches[k])
    /\ Len(files) = n

\* C15: the transfer bucket is empty when the first PUT of a batch is issued;
\* while batch i is worked on, the DELETEs of the batches before it, and no
\* other, have succeeded; within the batch the verification GET comes after
\* the PUTs, the export after it, the DELETE last.
FillPutsUpTo(k) ==
    LET cnt[j \in 0..n] ==
            IF j = 0 THEN 0 ELSE cnt[j - 1] + Ceil(Len(mef_batches[j]), BUCKET_BATCH_SIZE)
    IN  cnt[k]
ExportsOf(k) == IF dryrun THEN 0 ELSE k
C15_BatchesInOrder ==
    InLoop =>
        /\ (pc = "fill" /\ puts = <<>>) => bucket = {}
        /\ (pc = "verify" /\ mef_batches[i] = <<>>) => bucket = {}
        /\ clears = i - 1
        /\ issued["clear"] = i - 1
        /\ pc = "fill" => /\ issued["verify"] = i - 1
                          /\ issued["export"] = ExportsOf(i - 1)
                          /\ subs # <<>>
        /\ pc = "verify" => /\ issued["verify"] = i - 1
                            /\ issued["export"] = ExportsOf(i - 1)
                            /\ subs = <<>>
                            /\ issued["fill"] = FillPutsUpTo(i)
        /\ pc = "export" => /\ ~dryrun
                            /\ issued["verify"] = i
                            /\ issued["export"] = i - 1
                            /\ issued["fill"] = FillPutsUpTo(i)
        /\ pc = "clear" => /\ issued["verify"] = i
                           /\ issued["export"] = ExportsOf(i)
                           /\ issued["fill"] = FillPutsUpTo(i)
C15_Witness ==
    /\ cmd = "get" /\ pc = "fill"
    /\ i >= 2 /\ puts = <<>>
    /\ bucket = {}
    /\ clears = i - 1
    /\ issued["export"] = i - 1

\* C16: with limit 0 the paginated strategy asks from 1, then from the last
\* @to + 1, has taken the results in order up to @to after each page, stops
\* after the first empty page with every result taken once, in order; the
\* loop is left after finitely many requests.
PagedAll == cmd = "get" /\ ~magic /\ limit = 0
C16_PaginationTerminatesComplete ==
    /\ [](PagedAll =>
            /\ pc = "page" =>
                  /\ to = Min(issued["page"] * pageSize, Len(results))
                  /\ ids = SubSeq(results, 1, to)
                  /\ issued["page"] <= Len(results)
            /\ DiscoveryOver =>
                  /\ ids = results
                  /\ issued["page"] = Ceil(Len(results), pageSize) + 1)
    /\ (PagedAll /\ pc = "page") ~> (pc # "page")
C16_Witness ==
    /\ PagedAll /\ DiscoveryOver
    /\ Len(results) >= 3
    /\ pageSize = 2
    /\ issued["page"] = 3
    /\ ids = results

\* C17 as stated: with limit <= 0 the identifiers handed to export are all
\* the identifiers there are to discover.
C17_NoTruncationUnlessPositive ==
    (DiscoveryOver /\ limit <= 0) =>
        /\ magic => ids = found
        /\ ~magic => ids = results

\* C18: of the last page received, every entry, wrapped in a one-element list
\* or not, yields the identifier of the record it stands for, and the page
\* adds to the discovered identifiers exactly one per entry, in page order.
PageRecord(p) == results[to - Len(rsp) + p]
C18_WrappedEntriesYieldSameId ==
    (cmd = "get" /\ ~magic) =>
        /\ Len(rsp) <= to
        /\ Len(found) = to
        /\ \A p \in 1..Len(rsp) :
              /\ query_records(<<rsp[p]>>) = <<[uuid |-> PageRecord(p)]>>
              /\ found[Len(found) - Len(rsp) + p] = PageRecord(p)
C18_Witness ==
    /\ cmd = "get" /\ ~magic
    /\ Len(rsp) = 2
    /\ rsp[1].list /\ ~rsp[2].list
    /\ to >= 3
    /\ Len(found) = to
    /\ found[to - 1] = results[to - 1] /\ found[to] = results[to]

\* C19: whatever the clock shows, the name chosen for a batch is not the name
\* of a file the run has written for a batch before it, so every export
\* writes a new file and a run that ends well without dry-run leaves as many
\* files as there are batches; a dry-run leaves none.
C19_FilenamesDistinct ==
    (cmd = "get" /\ DiscoveryOver) =>
        /\ Cardinality(disk) = Len(files)
        /\ pc \in {"fill", "verify"} => \A t \in 0..span : Name(t, part) \notin disk
        /\ pc = "export" => filename \notin disk
        /\ pc = "clear" => (filename \in disk <=> ~dryrun)
        /\ (GetDone /\ ~dryrun) => Cardinality(disk) = n
        /\ dryrun => disk = {}
C19_Witness ==
    /\ GetDone /\ ~dryrun
    /\ n = 3
    /\ disk = {Name(0, Format02(1)), Name(0, Format02(2)), Name(1, Format02(3))}

\* C20: with a second run on the same transfer bucket, as long as the second
\* run has issued no request the first run's export request finds exactly its
\* batch in the bucket; a bucket that is not the batch shows only after the
\* second run has issued a request.
OtherUntouched == other = OtherStart(Flatten(other.mef_batches))
C20_AloneExportsItsBatch ==
    (cmd = "get" /\ pc = "export") =>
        /\ OtherUntouched => bucket = Range(mef_batches[i])
        /\ bucket \subseteq Range(mef_batches[i]) \cup Range(Flatten(other.mef_batches))
C20_Witness ==
    /\ cmd = "get" /\ pc = "export"
    /\ other.pc \in {"fill", "verify", "export", "clear"}
    /\ mef_batches[i] # <<>>
    /\ Range(mef_batches[i]) \cap bucket = {}
    /\ Range(other.mef_batches[other.i]) \cap bucket # {}
    /\ other.i >= 2

====
